---------------------------- MODULE Spec2Model ----------------------------
(***************************************************************************)
(* Model of scripts/60dayhard_google_task_script.py: main() acquires the   *)
(* Tasks API client, finds or creates the task list "60 Day Hard" and      *)
(* issues one create-call per record of a 60 day schedule.                 *)
(*                                                                         *)
(* TLA+ strings are ASCII.  The source's en dash (U+2013) is written "-"   *)
(* and its multiplication sign (U+00D7) is written "x" in every literal.   *)
(***************************************************************************)
EXTENDS Integers, Sequences, FiniteSets, TLC

VARIABLES pc, service, tasklist_id, i, slot,
          tokenFile, credentialsFile, lists, tasks,
          dayOf, run, starts, built, listed, raised, nCalls, lists0

vars == <<pc, service, tasklist_id, i, slot, tokenFile, credentialsFile,
          lists, tasks, dayOf, run, starts, built, listed, raised, nCalls,
          lists0>>

\* Number of times main() may be run in sequence against the same account.
MaxRuns == 2

TASKLIST_NAME == "60 Day Hard"

num_days == 60

start_date == [year |-> 2026, month |-> 1, day |-> 5]

-----------------------------------------------------------------------------
(* Optional[str]: <<>> is None, <<s>> is the string s.                     *)

None == <<>>

Some(s) == <<s>>

\* Python truthiness of an Optional[str]: None and "" are falsy.
Truthy(opt) == opt # None /\ opt[1] # ""

-----------------------------------------------------------------------------
(* datetime.date arithmetic, as CPython's datetime computes it.            *)

DAYS_IN_MONTH == <<31, 28, 31, 30, 31, 30, 31, 31, 30, 31, 30, 31>>

DAYS_BEFORE_MONTH == <<0, 31, 59, 90, 120, 151, 181, 212, 243, 273, 304, 334>>

IsLeap(year) == year % 4 = 0 /\ (year % 100 # 0 \/ year % 400 = 0)

DaysBeforeYear(year) ==
    LET y == year - 1
    IN  y * 365 + (y \div 4) - (y \div 100) + (y \div 400)

DaysBeforeMonth(year, month) ==
    DAYS_BEFORE_MONTH[month] + (IF month > 2 /\ IsLeap(year) THEN 1 ELSE 0)

\* date.toordinal()
ToOrdinal(d) == DaysBeforeYear(d.year) + DaysBeforeMonth(d.year, d.month) + d.day

\* date.fromordinal(n)
FromOrdinal(ord) ==
    LET n0   == ord - 1
        n400 == n0 \div 146097
        r400 == n0 % 146097
        n100 == r400 \div 36524
        r100 == r400 % 36524
        n4   == r100 \div 1461
        r4   == r100 % 1461
        n1   == r4 \div 365
        n    == r4 % 365
        year == n400 * 400 + 1 + n100 * 100 + n4 * 4 + n1
        leap == n1 = 3 /\ (n4 # 24 \/ n100 = 3)
        m0   == (n + 50) \div 32
        p0   == DAYS_BEFORE_MONTH[m0] + (IF m0 > 2 /\ leap THEN 1 ELSE 0)
        month == IF p0 > n THEN m0 - 1 ELSE m0
        prec == IF p0 > n
                THEN p0 - (DAYS_IN_MONTH[month]
                           + (IF month = 2 /\ leap THEN 1 ELSE 0))
                ELSE p0
    IN  IF n1 = 4 \/ n100 = 4
        THEN [year |-> year - 1, month |-> 12, day |-> 31]
        ELSE [year |-> year, month |-> month, day |-> n - prec + 1]

\* date + timedelta(days = n)
DateAdd(d, n) == FromOrdinal(ToOrdinal(d) + n)

\* date.weekday(): Monday = 0 ... Sunday = 6
Weekday(d) == (ToOrdinal(d) + 6) % 7

-----------------------------------------------------------------------------
(* String helpers: "%0wd" formatting, str.join, str.replace.               *)

Digit == <<"0", "1", "2", "3", "4", "5", "6", "7", "8", "9">>

RECURSIVE Pad(_, _)
Pad(n, w) == IF w = 0 THEN "" ELSE Pad(n \div 10, w - 1) \o Digit[(n % 10) + 1]

RECURSIVE Join(_, _)
Join(sep, parts) ==
    IF Len(parts) = 0 THEN ""
    ELSE IF Len(parts) = 1 THEN parts[1]
    ELSE parts[1] \o sep \o Join(sep, Tail(parts))

RECURSIVE ReplaceFrom(_, _, _, _)
ReplaceFrom(s, old, new, k) ==
    IF k > Len(s) THEN ""
    ELSE IF k + Len(old) - 1 <= Len(s) /\ SubSeq(s, k, k + Len(old) - 1) = old
    THEN new \o ReplaceFrom(s, old, new, k + Len(old))
    ELSE SubSeq(s, k, k) \o ReplaceFrom(s, old, new, k + 1)

\* s.replace(old, new), old non-empty
Replace(s, old, new) == ReplaceFrom(s, old, new, 1)

\* datetime(..., tzinfo = timezone.utc).isoformat()
IsoFormat(year, month, day, hour, minute, second) ==
    Pad(year, 4) \o "-" \o Pad(month, 2) \o "-" \o Pad(day, 2) \o "T"
    \o Pad(hour, 2) \o ":" \o Pad(minute, 2) \o ":" \o Pad(second, 2)
    \o "+00:00"

\* Mutant: the due time is midnight instead of noon.
make_due_iso_midnight(date_obj) ==
    Replace(IsoFormat(date_obj.year, date_obj.month, date_obj.day, 0, 0, 0),
            "+00:00", "Z")

make_due_iso(date_obj) ==
    Replace(IsoFormat(date_obj.year, date_obj.month, date_obj.day, 12, 0, 0),
            "+00:00", "Z")

-----------------------------------------------------------------------------
(* create_task: the request body built from its arguments.                 *)

\* Mutant: the notes key is always sent, empty when there are no notes.
TaskBodyAlwaysNotes(title, notes, due) ==
    [title |-> title,
     notes |-> IF notes = None THEN "" ELSE notes[1],
     due   |-> IF due = None THEN "" ELSE due[1]]

TaskBody(title, notes, due) ==
    CASE Truthy(notes) /\ Truthy(due) ->
            [title |-> title, notes |-> notes[1], due |-> due[1]]
      [] Truthy(notes) /\ ~Truthy(due) ->
            [title |-> title, notes |-> notes[1]]
      [] ~Truthy(notes) /\ Truthy(due) ->
            [title |-> title, due |-> due[1]]
      [] OTHER -> [title |-> title]

-----------------------------------------------------------------------------
(* The body of main()'s loop: the create_task calls of day index n, in the *)
(* order the code issues them.                                             *)

daily_notes ==
    Join("\n", <<"No alcohol", "No recreational drugs", "2L water",
                 "5 min meditation and RLT", "Reading before bed">>)

Call(title, notes, due) == [title |-> title, notes |-> notes, due |-> due]

\* Mutant: Sunday tested with the JavaScript getDay() numbering.
walk_title_js(dow) ==
    IF dow = 0 THEN "60DH - Long Walk (45-60 min)" ELSE "60DH - 30-min Walk"

walk_title(dow) ==
    IF dow = 6 THEN "60DH - Long Walk (45-60 min)" ELSE "60DH - 30-min Walk"

\* Mutant: the week index taken as i % 7 instead of i // 7.
is_week_a_mod(n) == (n % 7) % 2 = 0

is_week_a(n) == (n \div 7) % 2 = 0

DaySpecific(dow, weekA, due) ==
    IF dow = 0 THEN
        <<Call("Strength - Full Body / Lower",
               Some(Join("\n", <<"20-25 min cardio", "Push-ups: 3x12",
                                 "Pull-ups (assisted): 3x8 (2-3s hold)",
                                 "Step-ups: 3x10/leg", "Leg raises: 3x10",
                                 "Stretch">>)),
               Some(due))>>
    ELSE IF dow = 1 THEN
        <<Call("Climbing Session",
               Some(Join("\n", <<"4-6 routes", "Technique warm-up",
                                 "Shoulder mobility">>)),
               Some(due))>>
    ELSE IF dow = 2 THEN
        <<Call("Strength - Signature Workout",
               Some(Join("\n", <<"25 min cardio", "Push-ups: 3x12",
                                 "Pull-ups: 3x8", "Step-ups: 3x10/leg",
                                 "Leg raises: 3x10", "Stretch">>)),
               Some(due))>>
    ELSE IF dow = 3 THEN
        IF weekA THEN
            <<Call("Climbing Session (Week A)",
                   Some(Join("\n", <<"4-6 routes", "Technique focus",
                                     "Mobility cool-down">>)),
                   Some(due))>>
        ELSE
            <<Call("Swim Session (Week B)",
                   Some(Join("\n", <<"750-1000m total", "4x50 warm-up",
                                     "6x50 drills", "4x100 easy",
                                     "2x50 cooldown">>)),
                   Some(due))>>
    ELSE IF dow = 4 THEN
        <<Call("Strength - Full Body + Core",
               Some(Join("\n", <<"20 min cardio", "Push-ups: 3x10-12",
                                 "Pull-ups: 3x6-8",
                                 "Split squats or step-ups: 3x8/leg",
                                 "Core circuit x3", "Stretch">>)),
               Some(due))>>
    ELSE IF dow = 5 THEN
        <<Call("Yoga - 1 Hour", None, Some(due))>>
    ELSE <<>>

\* Mutant: Sunday tested with the JavaScript getDay() numbering.
RecoveryJs(dow, due) ==
    IF dow = 0 THEN <<Call("Mobility / Recovery", None, Some(due))>> ELSE <<>>

Recovery(dow, due) ==
    IF dow = 6 THEN <<Call("Mobility / Recovery", None, Some(due))>> ELSE <<>>

\* Mutant: the walk task is created on weekdays only.
DayCallsWalkWeekdaysOnly(n) ==
    LET current_date == DateAdd(start_date, n)
        dow == Weekday(current_date)
        due == make_due_iso(current_date)
    IN  <<Call("60DH - Daily Habits", Some(daily_notes), Some(due))>>
        \o (IF dow = 6 THEN <<>> ELSE <<Call(walk_title(dow), None, Some(due))>>)
        \o DaySpecific(dow, is_week_a(n), due)
        \o Recovery(dow, due)

\* Mutant: the day-specific workout is created before the daily tasks.
DayCallsWorkoutFirst(n) ==
    LET current_date == DateAdd(start_date, n)
        dow == Weekday(current_date)
        due == make_due_iso(current_date)
    IN  DaySpecific(dow, is_week_a(n), due)
        \o <<Call("60DH - Daily Habits", Some(daily_notes), Some(due))>>
        \o <<Call(walk_title(dow), None, Some(due))>>
        \o Recovery(dow, due)

DayCalls(n) ==
    LET current_date == DateAdd(start_date, n)
        dow == Weekday(current_date)
        due == make_due_iso(current_date)
    IN  <<Call("60DH - Daily Habits", Some(daily_notes), Some(due))>>
        \o <<Call(walk_title(dow), None, Some(due))>>
        \o DaySpecific(dow, is_week_a(n), due)
        \o Recovery(dow, due)

-----------------------------------------------------------------------------
(* State.                                                                  *)

\* Contents of token.json: absent, or the stored credentials.
ValidCreds == [valid |-> TRUE, expired |-> FALSE, refresh_token |-> TRUE]

TokenChoices ==
    { <<>>,
      <<ValidCreds>>,
      <<[valid |-> FALSE, expired |-> TRUE, refresh_token |-> TRUE]>>,
      <<[valid |-> FALSE, expired |-> TRUE, refresh_token |-> FALSE]>> }

\* Task lists the account holds before the first run, in listing order.
ListChoices ==
    { <<>>,
      <<[id |-> 1, title |-> "My Tasks"]>>,
      <<[id |-> 1, title |-> "My Tasks"], [id |-> 2, title |-> TASKLIST_NAME]>>,
      <<[id |-> 1, title |-> TASKLIST_NAME], [id |-> 2, title |-> "My Tasks"],
        [id |-> 3, title |-> TASKLIST_NAME]>> }

Init ==
    /\ pc = "start"
    /\ service = "none"
    /\ tasklist_id = 0
    /\ i = 0
    /\ slot = 0
    /\ tokenFile \in TokenChoices
    /\ credentialsFile \in BOOLEAN
    /\ lists \in ListChoices
    /\ lists0 = lists
    /\ tasks = <<>>
    /\ dayOf = <<>>
    /\ run = 1
    /\ starts = <<0>>
    /\ built = 0
    /\ listed = 0
    /\ raised = FALSE
    /\ nCalls = 0

-----------------------------------------------------------------------------
(* get_service                                                             *)

Usable == tokenFile # <<>> /\ tokenFile[1].valid

Refreshable ==
    tokenFile # <<>> /\ tokenFile[1].expired /\ tokenFile[1].refresh_token

GetService ==
    /\ pc = "start"
    /\ Usable \/ Refreshable \/ credentialsFile
    /\ tokenFile' = IF Usable THEN tokenFile ELSE <<ValidCreds>>
    /\ service' = "client"
    /\ built' = built + 1
    /\ nCalls' = nCalls + 1
    /\ pc' = "list"
    /\ UNCHANGED <<tasklist_id, i, slot, credentialsFile, lists, tasks, dayOf,
                   run, starts, listed, raised, lists0>>

GetServiceRaises ==
    /\ pc = "start"
    /\ \E cause \in {"FileNotFoundError", "RefreshError", "FlowError",
                     "BuildError"} :
         /\ cause = "FileNotFoundError"
               => ~Usable /\ ~Refreshable /\ ~credentialsFile
         /\ cause = "RefreshError" => ~Usable /\ Refreshable
         /\ cause = "FlowError" => ~Usable /\ ~Refreshable /\ credentialsFile
         /\ cause = "BuildError" => Usable \/ Refreshable \/ credentialsFile
         /\ tokenFile' = IF cause = "BuildError" /\ ~Usable
                         THEN <<ValidCreds>> ELSE tokenFile
         /\ built' = IF cause = "BuildError" THEN built + 1 ELSE built
    /\ nCalls' = nCalls + 1
    /\ raised' = TRUE
    /\ pc' = "failed"
    /\ UNCHANGED <<service, tasklist_id, i, slot, credentialsFile, lists, tasks,
                   dayOf, run, starts, listed, lists0>>

-----------------------------------------------------------------------------
(* get_or_create_tasklist                                                  *)

Matches(items, name) == {k \in 1..Len(items) : items[k].title = name}

Min(S) == CHOOSE x \in S : \A y \in S : x <= y

\* The value get_or_create_tasklist returns, and the account's lists after.
Inserted(items, name) == Append(items, [id |-> Len(items) + 1, title |-> name])

\* Mutant: the list is inserted without looking for an existing one.
ListsAfterAlwaysInsert(items, name) == Inserted(items, name)

ListsAfter(items, name) ==
    IF Matches(items, name) # {} THEN items ELSE Inserted(items, name)

Returned(items, name) ==
    IF Matches(items, name) # {}
    THEN items[Min(Matches(items, name))]
    ELSE [id |-> Len(items) + 1, title |-> name]

GetOrCreateTasklist ==
    /\ pc = "list"
    /\ lists' = ListsAfter(lists, TASKLIST_NAME)
    /\ tasklist_id' = Returned(lists, TASKLIST_NAME).id
    /\ listed' = listed + 1
    /\ nCalls' = nCalls + (IF Matches(lists, TASKLIST_NAME) # {} THEN 1 ELSE 2)
    /\ pc' = "loop"
    /\ UNCHANGED <<service, i, slot, tokenFile, credentialsFile, tasks, dayOf,
                   run, starts, built, raised, lists0>>

GetOrCreateTasklistRaises ==
    /\ pc = "list"
    /\ \E at \in {"list", "insert"} :
         /\ at = "insert" => Matches(lists, TASKLIST_NAME) = {}
         /\ nCalls' = nCalls + (IF at = "list" THEN 1 ELSE 2)
    /\ listed' = listed + 1
    /\ raised' = TRUE
    /\ pc' = "failed"
    /\ UNCHANGED <<service, tasklist_id, i, slot, tokenFile, credentialsFile,
                   lists, tasks, dayOf, run, starts, built, lists0>>

-----------------------------------------------------------------------------
(* The loop of main(): one create_task call per step.                      *)

\* Position after the call at (n, s) returned: next call of the day, next
\* day, or the end of range(num_days).
\* Mutant: the loop stops one day early.
AdvanceShort(n, s) ==
    IF s + 1 < Len(DayCalls(n)) THEN [i |-> n, slot |-> s + 1, pc |-> "loop"]
    ELSE IF n + 2 < num_days THEN [i |-> n + 1, slot |-> 0, pc |-> "loop"]
    ELSE [i |-> n + 1, slot |-> 0, pc |-> "done"]

Advance(n, s) ==
    IF s + 1 < Len(DayCalls(n)) THEN [i |-> n, slot |-> s + 1, pc |-> "loop"]
    ELSE IF n + 1 < num_days THEN [i |-> n + 1, slot |-> 0, pc |-> "loop"]
    ELSE [i |-> n + 1, slot |-> 0, pc |-> "done"]

CreateTask ==
    /\ pc = "loop"
    /\ LET c   == DayCalls(i)[slot + 1]
           nxt == Advance(i, slot)
       IN  /\ tasks' = Append(tasks, [tasklist |-> tasklist_id,
                                      body |-> TaskBody(c.title, c.notes, c.due)])
           /\ dayOf' = Append(dayOf, i)
           /\ i' = nxt.i
           /\ slot' = nxt.slot
           /\ pc' = nxt.pc
    /\ nCalls' = nCalls + 1
    /\ UNCHANGED <<service, tasklist_id, tokenFile, credentialsFile, lists, run,
                   starts, built, listed, raised, lists0>>

\* Mutant: a failed create-call is swallowed and the loop goes on.
CreateTaskSwallows ==
    /\ pc = "loop"
    /\ nCalls' = nCalls + 1
    /\ raised' = TRUE
    /\ i' = Advance(i, slot).i
    /\ slot' = Advance(i, slot).slot
    /\ pc' = Advance(i, slot).pc
    /\ UNCHANGED <<service, tasklist_id, tokenFile, credentialsFile,
                   lists, tasks, dayOf, run, starts, built, listed, lists0>>

CreateTaskRaises ==
    /\ pc = "loop"
    /\ nCalls' = nCalls + 1
    /\ raised' = TRUE
    /\ pc' = "failed"
    /\ UNCHANGED <<service, tasklist_id, i, slot, tokenFile, credentialsFile,
                   lists, tasks, dayOf, run, starts, built, listed, lists0>>

\* The script is run again after a completed run.
Rerun ==
    /\ pc = "done"
    /\ run < MaxRuns
    /\ run' = run + 1
    /\ starts' = Append(starts, Len(tasks))
    /\ pc' = "start"
    /\ service' = "none"
    /\ tasklist_id' = 0
    /\ i' = 0
    /\ slot' = 0
    /\ built' = 0
    /\ listed' = 0
    /\ UNCHANGED <<tokenFile, credentialsFile, lists, tasks, dayOf, raised,
                   nCalls, lists0>>

Next ==
    \/ GetService
    \/ GetServiceRaises
    \/ GetOrCreateTasklist
    \/ GetOrCreateTasklistRaises
    \/ CreateTask
    \/ CreateTaskRaises
    \/ Rerun

Spec == Init /\ [][Next]_vars

-----------------------------------------------------------------------------
(* Vocabulary of the properties.  The calendar below is written out from   *)
(* the month lengths of early 2026 and is independent of FromOrdinal.      *)

Range(r) ==
    [from |-> starts[r] + 1,
     to   |-> IF r < Len(starts) THEN starts[r + 1] ELSE Len(tasks)]

\* Bodies of the records created by run r, in creation order.
RunBodies(r) ==
    [k \in 1..(Range(r).to - Range(r).from + 1)
        |-> tasks[Range(r).from + k - 1].body]

CurBodies == RunBodies(run)

Days == 0..(num_days - 1)

CalendarDue(d) ==
    (IF d <= 26 THEN "2026-01-" \o Pad(d + 5, 2)
     ELSE IF d <= 54 THEN "2026-02-" \o Pad(d - 26, 2)
     ELSE "2026-03-" \o Pad(d - 54, 2)) \o "T12:00:00Z"

IsSunday(d) == d % 7 = 6

HabitsTitle == "60DH - Daily Habits"

HabitsNotes ==
    "No alcohol\nNo recreational drugs\n2L water\n5 min meditation and RLT\nReading before bed"

LongWalk == "60DH - Long Walk (45-60 min)"

ShortWalk == "60DH - 30-min Walk"

RecoveryTitle == "Mobility / Recovery"

IsHabits(b) == b.title = HabitsTitle

IsWalk(b) == b.title \in {LongWalk, ShortWalk}

IsRecovery(b) == b.title = RecoveryTitle

IsWorkout(b) == ~IsHabits(b) /\ ~IsWalk(b) /\ ~IsRecovery(b)

HasNotes(b) == "notes" \in DOMAIN b

\* The records of the current run that carry day d's due timestamp.
DayBodies(d) ==
    LET due == CalendarDue(d)
        OfDay(b) == "due" \in DOMAIN b /\ b.due = due
    IN  SelectSeq(CurBodies, OfDay)

Titles(bs) == [k \in 1..Len(bs) |-> bs[k].title]

Contains(s, sub) ==
    \E k \in 1..(Len(s) - Len(sub) + 1) : SubSeq(s, k, k + Len(sub) - 1) = sub

NumLines(s) == 1 + Cardinality({k \in 1..Len(s) : SubSeq(s, k, k) = "\n"})

\* Title and notes of a record, without its due timestamp.
Content(b) == [title |-> b.title,
               notes |-> IF HasNotes(b) THEN <<b.notes>> ELSE <<>>]

Contents(bs) == [k \in 1..Len(bs) |-> Content(bs[k])]

-----------------------------------------------------------------------------
\* C1: after a complete run, the records carrying a day's due timestamp hold
\* exactly one Daily Habits record, with the fixed five-line notes, and
\* exactly one Walk record, for every day index in 0..59.
C1_OneHabitsOneWalk ==
    pc = "done" =>
        \A d \in Days :
            LET recs == DayBodies(d)
                h == SelectSeq(recs, IsHabits)
                w == SelectSeq(recs, IsWalk)
            IN  /\ Len(h) = 1
                /\ HasNotes(h[1])
                /\ h[1].notes = HabitsNotes
                /\ NumLines(h[1].notes) = 5
                /\ Len(w) = 1

C1_Witness ==
    /\ pc = "done"
    /\ Len(DayBodies(6)) > 0
    /\ Len(DayBodies(10)) > 0
    /\ Len(DayBodies(59)) > 0

-----------------------------------------------------------------------------
\* C2 as stated: the Walk record's title is exactly "Long Walk" on a Sunday
\* and exactly "30-min Walk" on every other day.
C2_Original ==
    pc \in {"loop", "done"} =>
        \A d \in 0..(i - 1) :
            LET t == Titles(DayBodies(d))
                w == {k \in 1..Len(t) : t[k] \in {"Long Walk", "30-min Walk"}}
            IN  /\ Cardinality(w) = 1
                /\ \A k \in w : t[k] = "Long Walk" <=> IsSunday(d)

\* C2, amended: the Walk record's title is "60DH - Long Walk (45-60 min)" if
\* and only if the day is a Sunday, and "60DH - 30-min Walk" on every other
\* day; both titles contain the short names the claim gives.
C2_WalkTitle ==
    pc = "done" =>
        \A d \in Days :
            LET w == SelectSeq(DayBodies(d), IsWalk)
            IN  /\ Len(w) = 1
                /\ w[1].title = LongWalk <=> IsSunday(d)
                /\ ~IsSunday(d) => w[1].title = ShortWalk
                /\ Contains(w[1].title,
                            IF IsSunday(d) THEN "Long Walk" ELSE "30-min Walk")
                /\ ~HasNotes(w[1])

C2_Witness ==
    /\ pc = "done"
    /\ \E k \in 1..Len(CurBodies) : CurBodies[k].title = LongWalk
    /\ \E k \in 1..Len(CurBodies) : CurBodies[k].title = ShortWalk

-----------------------------------------------------------------------------
\* C3: on every Thursday the day-specific record is "Climbing Session
\* (Week A)" iff the week index d \div 7 is even and "Swim Session (Week B)"
\* otherwise; on every other day of the week the records of week w and of
\* week w + 1 have the same titles and notes.
C3_ThursdayParity ==
    pc = "done" =>
        /\ \A d \in Days :
              d % 7 = 3 =>
                LET x == SelectSeq(DayBodies(d), IsWorkout)
                IN  /\ Len(x) = 1
                    /\ Contains(x[1].title, "Week A") <=> (d \div 7) % 2 = 0
                    /\ (d \div 7) % 2 = 0
                          => x[1].title = "Climbing Session (Week A)"
                    /\ (d \div 7) % 2 # 0
                          => x[1].title = "Swim Session (Week B)"
        /\ \A d \in Days :
              (d % 7 # 3 /\ d + 7 \in Days) =>
                 Contents(DayBodies(d)) = Contents(DayBodies(d + 7))

C3_Witness ==
    /\ pc = "done"
    /\ \E k \in 1..Len(CurBodies) :
          CurBodies[k].title = "Swim Session (Week B)"
          /\ CurBodies[k].due = CalendarDue(10)
    /\ \E k \in 1..Len(CurBodies) :
          CurBodies[k].title = "Climbing Session (Week A)"
          /\ CurBodies[k].due = CalendarDue(59)

-----------------------------------------------------------------------------
\* C4: a day has a "Mobility / Recovery" record, without notes, iff it is a
\* Sunday, and a Sunday's records are exactly Daily Habits, Long Walk and
\* Recovery.
C4_RecoveryOnSunday ==
    pc = "done" =>
        \A d \in Days :
            LET recs == DayBodies(d)
                r == SelectSeq(recs, IsRecovery)
            IN  /\ Len(r) > 0 <=> IsSunday(d)
                /\ IsSunday(d) =>
                      /\ Titles(recs) = <<HabitsTitle, LongWalk, RecoveryTitle>>
                      /\ ~HasNotes(recs[3])

C4_Witness ==
    /\ pc = "done"
    /\ Titles(DayBodies(6)) = <<HabitsTitle, LongWalk, RecoveryTitle>>
    /\ Len(SelectSeq(DayBodies(5), IsRecovery)) = 0

-----------------------------------------------------------------------------
\* C5: the day-specific workout record is the entry of the fixed table for
\* the day of week (Thursday by week parity); Monday to Saturday have exactly
\* one, Saturday's has no notes, Sunday has none.
WorkoutTable(d) ==
    CASE d % 7 = 0 -> "Strength - Full Body / Lower"
      [] d % 7 = 1 -> "Climbing Session"
      [] d % 7 = 2 -> "Strength - Signature Workout"
      [] d % 7 = 3 -> IF (d \div 7) % 2 = 0 THEN "Climbing Session (Week A)"
                      ELSE "Swim Session (Week B)"
      [] d % 7 = 4 -> "Strength - Full Body + Core"
      [] d % 7 = 5 -> "Yoga - 1 Hour"

C5_WorkoutTable ==
    pc = "done" =>
        \A d \in Days :
            LET x == SelectSeq(DayBodies(d), IsWorkout)
            IN  IF IsSunday(d) THEN Len(x) = 0
                ELSE /\ Len(x) = 1
                     /\ x[1].title = WorkoutTable(d)
                     /\ HasNotes(x[1]) <=> d % 7 # 5

C5_Witness ==
    /\ pc = "done"
    /\ \A d \in 0..5 :
          \E k \in 1..Len(CurBodies) : CurBodies[k].title = WorkoutTable(d)
    /\ \E k \in 1..Len(CurBodies) :
          CurBodies[k].title = "Yoga - 1 Hour" /\ ~HasNotes(CurBodies[k])

-----------------------------------------------------------------------------
\* C6: a complete run creates 2 * 60 + (days with a workout) + (Sundays)
\* = 120 + 52 + 8 = 180 records, three for every day, and every complete
\* run creates the same sequence of records.
C6_TotalRecords ==
    pc = "done" =>
        /\ Cardinality({d \in Days : ~IsSunday(d)}) = 52
        /\ Cardinality({d \in Days : IsSunday(d)}) = 8
        /\ Len(CurBodies) = 2 * num_days
                            + Cardinality({d \in Days : ~IsSunday(d)})
                            + Cardinality({d \in Days : IsSunday(d)})
        /\ Len(CurBodies) = 180
        /\ \A d \in Days : Len(DayBodies(d)) = 3
        /\ \A r \in 1..run : RunBodies(r) = CurBodies

C6_Witness == pc = "done" /\ run = 2 /\ Len(tasks) > Len(CurBodies)

-----------------------------------------------------------------------------
\* C7: create-calls are issued in day-ascending order and, within a day, in
\* the order Daily Habits, Walk, then workout or Recovery; a new day starts
\* only after the previous day's last record; the client is acquired once,
\* before the one list lookup, which precedes every create-call.
Rank(b) == IF IsHabits(b) THEN 0 ELSE IF IsWalk(b) THEN 1 ELSE 2

DigitValue(c) == CHOOSE v \in 0..9 : Digit[v + 1] = c

RECURSIVE ParseNat(_)
ParseNat(s) ==
    IF Len(s) = 0 THEN 0
    ELSE 10 * ParseNat(SubSeq(s, 1, Len(s) - 1))
         + DigitValue(SubSeq(s, Len(s), Len(s)))

\* "YYYY-MM-DDThh:mm:ssZ": the date and the time of day as numbers.
DueDateKey(due) ==
    (ParseNat(SubSeq(due, 1, 4)) * 100 + ParseNat(SubSeq(due, 6, 7))) * 100
    + ParseNat(SubSeq(due, 9, 10))

DueTimeKey(due) ==
    (ParseNat(SubSeq(due, 12, 13)) * 100 + ParseNat(SubSeq(due, 15, 16))) * 100
    + ParseNat(SubSeq(due, 18, 19))

\* Timestamp a is not later than timestamp b.
DueLeq(a, b) ==
    \/ DueDateKey(a) < DueDateKey(b)
    \/ DueDateKey(a) = DueDateKey(b) /\ DueTimeKey(a) <= DueTimeKey(b)

C7_Step ==
    /\ Len(tasks') > Len(tasks) =>
          /\ Len(tasks') = Len(tasks) + 1
          /\ service = "client" /\ built = 1 /\ listed = 1
          /\ LET new  == tasks'[Len(tasks')].body
                 nday == dayOf'[Len(tasks')]
             IN  IF Len(tasks) = starts[run]
                 THEN Rank(new) = 0 /\ nday = 0
                 ELSE LET prev == tasks[Len(tasks)].body
                          pday == dayOf[Len(tasks)]
                      IN  /\ DueLeq(prev.due, new.due)
                          /\ pday <= nday
                          /\ pday = nday <=> prev.due = new.due
                          /\ pday = nday => Rank(new) = Rank(prev) + 1
                          /\ pday # nday =>
                                /\ nday = pday + 1
                                /\ Rank(new) = 0
                                /\ Rank(prev) = 2
    /\ listed' > listed =>
          /\ service = "client" /\ built = 1 /\ listed = 0
          /\ Len(tasks) = starts[run]
    /\ built' > built => built = 0 /\ listed = 0 /\ Len(tasks) = starts[run]

C7_Ordering == [][C7_Step]_vars

C7_Witness ==
    /\ pc = "loop"
    /\ i = 7
    /\ slot = 1
    /\ run = 2

-----------------------------------------------------------------------------
\* C8: a failure of any collaborator call ends the run: the failing step
\* changes neither the lists nor the records and leaves the run failed, no
\* step follows it, and a failure in get_service happens before the list
\* lookup and before any record of the run.
C8_Step ==
    /\ raised => UNCHANGED vars
    /\ (raised' /\ ~raised) =>
          /\ pc' = "failed"
          /\ tasks' = tasks
          /\ lists' = lists
          /\ service = "none" =>
                /\ listed' = 0
                /\ tasklist_id' = 0
                /\ Len(tasks') = starts[run]
                /\ run = 1 => tasks' = <<>> /\ lists' = lists0

C8_FailureAborts == [][C8_Step]_vars

C8_Witness ==
    /\ raised
    /\ pc = "failed"
    /\ dayOf # <<>>
    /\ dayOf[Len(dayOf)] = 10
    /\ Len(tasks) > starts[run]

-----------------------------------------------------------------------------
\* C9: every record created while the loop is at day index d carries the due
\* timestamp "YYYY-MM-DDT12:00:00Z" of 2026-01-05 + d days; the weekday of
\* day d is d mod 7 with 0 = Monday; different days have different due
\* timestamps.
CurDay(k) == dayOf[starts[run] + k]

C9_DueTimestamp ==
    /\ i \in Days => Weekday(DateAdd(start_date, i)) = i % 7
    /\ pc = "done" =>
          /\ CurBodies[1].due = "2026-01-05T12:00:00Z"
          /\ \A k \in 1..Len(CurBodies) :
                /\ "due" \in DOMAIN CurBodies[k]
                /\ CurBodies[k].due = CalendarDue(CurDay(k))
          /\ \A k1, k2 \in 1..Len(CurBodies) :
                CurDay(k1) # CurDay(k2) => CurBodies[k1].due # CurBodies[k2].due

C9_Witness ==
    /\ pc = "done"
    /\ CurBodies[Len(CurBodies)].due = "2026-03-05T12:00:00Z"
    /\ \E k \in 1..Len(CurBodies) : CurBodies[k].due = "2026-02-01T12:00:00Z"

-----------------------------------------------------------------------------
\* C10: k complete runs leave k * 180 records, all in one list; a list named
\* "60 Day Hard" is inserted only if the account had none before the first
\* run, otherwise the first one listed is used, and no later run inserts
\* another.
HadList == \E k \in 1..Len(lists0) : lists0[k].title = TASKLIST_NAME

FirstListed ==
    lists0[CHOOSE k \in 1..Len(lists0) :
              /\ lists0[k].title = TASKLIST_NAME
              /\ \A j \in 1..(k - 1) : lists0[j].title # TASKLIST_NAME]

C10_RerunRecreates ==
    /\ pc \in {"loop", "done"} =>
          /\ HadList => lists = lists0 /\ tasklist_id = FirstListed.id
          /\ ~HadList =>
                /\ Len(lists) = Len(lists0) + 1
                /\ SubSeq(lists, 1, Len(lists0)) = lists0
                /\ lists[Len(lists)].title = TASKLIST_NAME
                /\ lists[Len(lists)].id = tasklist_id
                /\ \A k \in 1..Len(lists0) : lists0[k].id # tasklist_id
    /\ pc = "done" =>
          /\ Len(tasks) = run * 180
          /\ \A k \in 1..Len(tasks) : tasks[k].tasklist = tasklist_id
          /\ \A r \in 1..run : Len(RunBodies(r)) = 180

C10_Witness ==
    /\ pc = "done"
    /\ run = 2
    /\ ~HadList
    /\ Len(tasks) = 360

=============================================================================
